---- MODULE Spec2Model ----
(***************************************************************************)
(* Model of the DorisAgent HTTP client (examples/nodejs_agent_example.js). *)
(*                                                                         *)
(* One DorisAgent is constructed; independent call sites invoke its async  *)
(* methods.  Each method runs synchronously up to its single               *)
(* `await this.client.get/post(...)`, is then suspended until the axios    *)
(* promise settles (response, network error, timeout, or an error of the   *)
(* request body stream) and finally returns or throws to its caller.       *)
(*                                                                         *)
(* JavaScript values are modelled as follows.  Strings are TLA+ strings;   *)
(* `undefined` and `null` are the two reserved strings below.  A URL that  *)
(* the constructor edits is a sequence of one-character strings.  A JSON   *)
(* object is a sequence of <<key, value>> pairs, a nested key written with *)
(* a dot (params.sql, detail.error).                                       *)
(***************************************************************************)
EXTENDS Integers, Sequences, FiniteSets, TLC

VARIABLES
    self,          \* the DorisAgent instance: this.baseUrl, this.apiKey, this.client
    ctorArgs,      \* the arguments `new DorisAgent(...)` was called with
    slots,         \* per call site: the method call it is running, if any
    invoked,       \* number of method invocations so far
    httpRequests   \* number of this.client.get/post calls so far

vars == <<self, ctorArgs, slots, invoked, httpRequests>>

(***************************************************************************)
(* Bounds of the model.                                                    *)
(***************************************************************************)
MaxUrlLen == 2     \* longest base URL drawn from UrlChars
MaxCalls == 2      \* method invocations explored per behaviour

Callers == {"c1", "c2"}      \* independent call sites using the one client
UrlChars == {"a", "/"}

Undefined == "<undefined>"
Null == "<null>"

(***************************************************************************)
(* JavaScript helpers.                                                     *)
(***************************************************************************)
\* truthiness of a string-or-null value, as tested by `||` and `if (key)`
Truthy(v) == v \notin {Undefined, Null, ""}

\* a || b
Or(a, b) == IF Truthy(a) THEN a ELSE b

\* a default parameter value: used when the argument is undefined
Default(arg, dflt) == IF arg = Undefined THEN dflt ELSE arg

\* Boolean.prototype.toString
BoolToString(b) == IF b THEN "true" ELSE "false"

\* JSON.stringify of an object drops the keys whose value is undefined
ToJSON(obj) == SelectSeq(obj, LAMBDA kv : kv[2] # Undefined)

\* the keys of a serialised body
Keys(obj) == {obj[i][1] : i \in DOMAIN obj}

\* obj.key (undefined when the key is absent)
Get(obj, key) ==
    IF key \in Keys(obj)
    THEN LET i == CHOOSE j \in DOMAIN obj : obj[j][1] = key IN obj[i][2]
    ELSE Undefined

(***************************************************************************)
(* Values crossing the HTTP boundary.                                      *)
(***************************************************************************)
\* a JavaScript value held in response.data or returned by a method
JSUndefined == [t |-> "undefined", obj |-> <<>>, text |-> ""]
JSString(x) == [t |-> "string", obj |-> <<>>, text |-> x]
JSObject(o) == [t |-> "object", obj |-> o, text |-> ""]

\* v.key for a value v: a property of an object, undefined on a string
Prop(v, key) ==
    IF v.t = "object" /\ Get(v.obj, key) # Undefined
    THEN JSString(Get(v.obj, key))
    ELSE JSUndefined

NoResponse == [status |-> 0, data |-> JSUndefined]
NoError == [name |-> "", code |-> "", message |-> "", hasResponse |-> FALSE,
            response |-> NoResponse]
NoRequest == [method |-> "", baseURL |-> <<>>, timeout |-> 0, url |-> "",
              enc |-> "", body |-> <<>>]

(***************************************************************************)
(* The constructor, lines 21-28.                                           *)
(***************************************************************************)
\* 'http://localhost:8018'
DefaultBaseUrl ==
    <<"h","t","t","p",":","/","/","l","o","c","a","l","h","o","s","t",":","8","0","1","8">>

\* the base URL argument left out
UndefinedUrl == <<Undefined>>

\* baseUrl.replace(/\/$/, ''): the pattern matches one '/' at the very end
StripTrailingSlash(s) ==
    IF Len(s) > 0 /\ s[Len(s)] = "/" THEN SubSeq(s, 1, Len(s) - 1) ELSE s

\* timeout: 60000 of axios.create
AxiosTimeout == 60000

\* variant: the axios instance is created with timeout 0, i.e. without one
constructor_noTimeout(baseUrlArg, apiKeyArg) ==
    LET baseUrl == StripTrailingSlash(
                       IF baseUrlArg = UndefinedUrl THEN DefaultBaseUrl ELSE baseUrlArg)
        apiKey == Default(apiKeyArg, Null)
    IN  [this |-> [baseUrl |-> baseUrl,
                   apiKey |-> apiKey,
                   client |-> [baseURL |-> baseUrl, timeout |-> 0]],
         calls |-> <<>>]

\* new DorisAgent(baseUrl, apiKey): the instance, and the HTTP calls it makes
constructor(baseUrlArg, apiKeyArg) ==
    LET baseUrl == StripTrailingSlash(
                       IF baseUrlArg = UndefinedUrl THEN DefaultBaseUrl ELSE baseUrlArg)
        apiKey == Default(apiKeyArg, Null)
    IN  [this |-> [baseUrl |-> baseUrl,
                   apiKey |-> apiKey,
                   client |-> [baseURL |-> baseUrl, timeout |-> AxiosTimeout]],
         calls |-> <<>>]

(***************************************************************************)
(* this.client.get / this.client.post: the request handed to axios.        *)
(***************************************************************************)
ClientGet(client, url) ==
    [method |-> "GET", baseURL |-> client.baseURL, timeout |-> client.timeout,
     url |-> url, enc |-> "none", body |-> <<>>]

\* a plain object is sent as JSON, a FormData as multipart/form-data
ClientPost(client, url, enc, data) ==
    [method |-> "POST", baseURL |-> client.baseURL, timeout |-> client.timeout,
     url |-> url, enc |-> enc,
     body |-> IF enc = "json" THEN ToJSON(data) ELSE data]

(***************************************************************************)
(* The methods, each up to its await: the state of `this` afterwards and   *)
(* the calls made on this.client.                                          *)
(***************************************************************************)
\* variant: the health check is sent a second time
healthCheck_twice(this) ==
    [this |-> this,
     calls |-> <<ClientGet(this.client, "/api/health"),
                 ClientGet(this.client, "/api/health")>>]

healthCheck(this) ==
    [this |-> this, calls |-> <<ClientGet(this.client, "/api/health")>>]

\* variant: the model is sent whenever the caller names one, key or no key
ask_sendsModelAlone(this, question, apiKeyArg, modelArg) ==
    LET apiKey == Default(apiKeyArg, Null)
        key == Or(apiKey, this.apiKey)
        payload == <<<<"query", question>>,
                     <<"api_key", IF Truthy(key) THEN key ELSE Undefined>>,
                     <<"model", IF Truthy(key) THEN Default(modelArg, "deepseek-chat")
                                ELSE modelArg>>>>
    IN  [this |-> this,
         calls |-> <<ClientPost(this.client, "/api/query/natural", "json", payload)>>]

\* variant: the default key wins over the key of the call
ask_defaultFirst(this, question, apiKeyArg, modelArg) ==
    LET apiKey == Default(apiKeyArg, Null)
        model == Default(modelArg, "deepseek-chat")
        key == Or(this.apiKey, apiKey)
        payload == IF Truthy(key)
                   THEN <<<<"query", question>>, <<"api_key", key>>, <<"model", model>>>>
                   ELSE <<<<"query", question>>>>
    IN  [this |-> this,
         calls |-> <<ClientPost(this.client, "/api/query/natural", "json", payload)>>]

\* variant: the key of a call is remembered as the default key
ask_storesKey(this, question, apiKeyArg, modelArg) ==
    LET apiKey == Default(apiKeyArg, Null)
        model == Default(modelArg, "deepseek-chat")
        key == Or(apiKey, this.apiKey)
        payload == IF Truthy(key)
                   THEN <<<<"query", question>>, <<"api_key", key>>, <<"model", model>>>>
                   ELSE <<<<"query", question>>>>
    IN  [this |-> [this EXCEPT !.apiKey = key],
         calls |-> <<ClientPost(this.client, "/api/query/natural", "json", payload)>>]

ask(this, question, apiKeyArg, modelArg) ==
    LET apiKey == Default(apiKeyArg, Null)
        model == Default(modelArg, "deepseek-chat")
        key == Or(apiKey, this.apiKey)
        payload == IF Truthy(key)
                   THEN <<<<"query", question>>, <<"api_key", key>>, <<"model", model>>>>
                   ELSE <<<<"query", question>>>>
    IN  [this |-> this,
         calls |-> <<ClientPost(this.client, "/api/query/natural", "json", payload)>>]

uploadExcel(this, filePath, tableName, createTableArg) ==
    LET createTable == IF createTableArg.given THEN createTableArg.val ELSE TRUE
        form == <<<<"file", filePath>>, <<"table_name", tableName>>,
                  <<"create_table", BoolToString(createTable)>>>>
    IN  [this |-> this,
         calls |-> <<ClientPost(this.client, "/api/upload", "multipart", form)>>]

previewExcel(this, filePath, rowsArg) ==
    LET rows == IF rowsArg.given THEN rowsArg.val ELSE 10
        form == <<<<"file", filePath>>, <<"rows", ToString(rows)>>>>
    IN  [this |-> this,
         calls |-> <<ClientPost(this.client, "/api/upload/preview", "multipart", form)>>]

query(this, sql) ==
    [this |-> this,
     calls |-> <<ClientPost(this.client, "/api/execute", "json",
                            <<<<"action", "query">>, <<"params.sql", sql>>>>)>>]

getTables(this) ==
    [this |-> this, calls |-> <<ClientGet(this.client, "/api/tables")>>]

getTableSchema(this, tableName) ==
    [this |-> this,
     calls |-> <<ClientGet(this.client, "/api/tables/" \o tableName \o "/schema")>>]

createLLMConfig(this, config) ==
    [this |-> this,
     calls |-> <<ClientPost(this.client, "/api/llm/config", "json", config)>>]

\* the expression each method returns once its await has a response
ReturnValue(name, response) ==
    CASE name = "getTables" -> Prop(response.data, "tables")
      [] name = "getTableSchema" -> Prop(response.data, "schema")
      [] OTHER -> response.data

\* variant: a rejection is caught and rethrown as `new Error(detail.error)`
Await_throwsDetail(name, outcome) ==
    IF outcome.rejected
    THEN [threw |-> TRUE,
          error |-> [name |-> "Error", code |-> "",
                     message |-> IF outcome.error.hasResponse
                                 THEN Get(outcome.error.response.data.obj, "detail.error")
                                 ELSE outcome.error.message,
                     hasResponse |-> FALSE, response |-> NoResponse],
          value |-> JSUndefined, calls |-> <<>>]
    ELSE [threw |-> FALSE, error |-> NoError,
          value |-> ReturnValue(name, outcome.response), calls |-> <<>>]

\* variant: a rejection is caught and rethrown as `new Error(error.message)`
Await_wrapsError(name, outcome) ==
    IF outcome.rejected
    THEN [threw |-> TRUE,
          error |-> [name |-> "Error", code |-> "", message |-> outcome.error.message,
                     hasResponse |-> FALSE, response |-> NoResponse],
          value |-> JSUndefined, calls |-> <<>>]
    ELSE [threw |-> FALSE, error |-> NoError,
          value |-> ReturnValue(name, outcome.response), calls |-> <<>>]

\* variant: a rejection is caught and the body of the error response returned
Await_swallows(name, outcome) ==
    IF outcome.rejected
    THEN [threw |-> FALSE, error |-> NoError,
          value |-> outcome.error.response.data, calls |-> <<>>]
    ELSE [threw |-> FALSE, error |-> NoError,
          value |-> ReturnValue(name, outcome.response), calls |-> <<>>]

\* `const response = await ...; return ...` with no try/catch around it:
\* a rejection is thrown to the caller as it is, a response is returned;
\* nothing after the await calls this.client again
Await(name, outcome) ==
    IF outcome.rejected
    THEN [threw |-> TRUE, error |-> outcome.error, value |-> JSUndefined,
          calls |-> <<>>]
    ELSE [threw |-> FALSE, error |-> NoError,
          value |-> ReturnValue(name, outcome.response), calls |-> <<>>]

\* how a caller tells the failures apart (main's catch): an error with a
\* response is a rejection by the server, one without is a failed transport
ErrorKind(error) ==
    IF error.hasResponse THEN "RemoteError" ELSE "TransportError"

(***************************************************************************)
(* What axios does with the request (the environment of the client).       *)
(***************************************************************************)
\* the files of the local disk that can be opened for reading
ExistingFiles == {"data.xlsx"}

\* the request body streams a file that fs.createReadStream cannot open
StreamsMissingFile(request) ==
    /\ request.enc = "multipart"
    /\ Get(request.body, "file") \notin ExistingFiles

\* transformResponse: a body that parses as JSON becomes an object, any
\* other body is kept as the string it is
ParseBody(body) ==
    IF body.json THEN JSObject(body.obj) ELSE JSString(body.text)

\* validateStatus: 2xx resolves, every other status rejects with an
\* AxiosError that carries the response
SettleResponse(status, body) ==
    LET response == [status |-> status, data |-> ParseBody(body)]
    IN  IF status >= 200 /\ status < 300
        THEN [rejected |-> FALSE, response |-> response, error |-> NoError]
        ELSE [rejected |-> TRUE, response |-> NoResponse,
              error |-> [name |-> "AxiosError",
                         code |-> IF status < 500 THEN "ERR_BAD_REQUEST"
                                                  ELSE "ERR_BAD_RESPONSE",
                         message |-> "Request failed with status code "
                                         \o ToString(status),
                         hasResponse |-> TRUE,
                         response |-> response]]

\* no response: the connection failed, the timer fired, or the file stream
\* of the body emitted an error
SettleFailure(code, message) ==
    [rejected |-> TRUE, response |-> NoResponse,
     error |-> [name |-> "AxiosError", code |-> code, message |-> message,
                hasResponse |-> FALSE, response |-> NoResponse]]

TimeoutMessage(request) == "timeout of " \o ToString(request.timeout) \o "ms exceeded"

\* the bodies a gateway may send with a 2xx status: the documented one, one
\* that lacks the documented fields, and one that is not JSON
DocumentedBody(name) ==
    CASE name = "healthCheck" ->
            <<<<"success", "true">>, <<"doris_connected", "true">>>>
      [] name = "getTables" ->
            <<<<"success", "true">>, <<"tables", "[institutions]">>>>
      [] name = "getTableSchema" ->
            <<<<"success", "true">>, <<"table", "t">>, <<"schema", "[Field,Type]">>>>
      [] name = "ask" ->
            <<<<"success", "true">>, <<"sql", "SELECT 1">>, <<"count", "1">>>>
      [] OTHER ->
            <<<<"success", "true">>, <<"count", "1">>>>

OkBodies(name) ==
    { [json |-> TRUE, obj |-> DocumentedBody(name), text |-> ""],
      [json |-> TRUE, obj |-> <<<<"success", "true">>>>, text |-> ""],
      [json |-> FALSE, obj |-> <<>>, text |-> "<html>Bad Gateway</html>"] }

\* the error envelope {detail: {error, traceback?}} of a non-2xx status
ServerErrors ==
    { [status |-> 404, error |-> "table not found"],
      [status |-> 500, error |-> "boom"] }

ErrorBody(m) == [json |-> TRUE, obj |-> <<<<"detail.error", m>>>>, text |-> ""]

NetworkFailures ==
    { [code |-> "ECONNREFUSED", message |-> "connect ECONNREFUSED 127.0.0.1:8018"] }

(***************************************************************************)
(* State.                                                                  *)
(***************************************************************************)
NoOutcome == [rejected |-> FALSE, response |-> NoResponse, error |-> NoError]
NoResult == [threw |-> FALSE, error |-> NoError, value |-> JSUndefined,
             calls |-> <<>>]
\* what the gateway put on the wire for a request: nothing, or a status and body
NoWire == [received |-> FALSE, status |-> 0,
           body |-> [json |-> FALSE, obj |-> <<>>, text |-> ""]]
Received(status, body) == [received |-> TRUE, status |-> status, body |-> body]
IdleSlot == [st |-> "idle", op |-> [name |-> ""], calls |-> <<>>, wire |-> NoWire,
             outcome |-> NoOutcome, result |-> NoResult]

\* sequences over UrlChars of length at most n
RECURSIVE UrlsUpTo(_)
UrlsUpTo(n) ==
    IF n = 0 THEN {<<>>}
    ELSE LET shorter == UrlsUpTo(n - 1)
         IN  shorter \cup {Append(u, ch) : u \in shorter, ch \in UrlChars}

BaseUrlArgs == UrlsUpTo(MaxUrlLen) \cup {UndefinedUrl}
ApiKeyArgs == {Undefined, "sk-default"}

Init ==
    \E baseUrlArg \in BaseUrlArgs, apiKeyArg \in ApiKeyArgs :
        LET made == constructor(baseUrlArg, apiKeyArg)
        IN  /\ ctorArgs = [baseUrl |-> baseUrlArg, apiKey |-> apiKeyArg]
            /\ self = made.this
            /\ slots = [c \in Callers |-> IdleSlot]
            /\ invoked = 0
            /\ httpRequests = Len(made.calls)

(***************************************************************************)
(* A call site invokes a method: the method runs up to its await.          *)
(***************************************************************************)
Invoke(c, op, body) ==
    /\ slots[c].st = "idle"
    /\ invoked < MaxCalls
    /\ self' = body.this
    /\ slots' = [slots EXCEPT ![c] = [st |-> "pending", op |-> op,
                                      calls |-> body.calls, wire |-> NoWire,
                                      outcome |-> NoOutcome, result |-> NoResult]]
    /\ invoked' = invoked + 1
    /\ httpRequests' = httpRequests + Len(body.calls)
    /\ UNCHANGED ctorArgs

OptBools == {[given |-> FALSE, val |-> FALSE], [given |-> TRUE, val |-> FALSE]}
OptRows == {[given |-> FALSE, val |-> 0], [given |-> TRUE, val |-> 5]}
FilePaths == {"data.xlsx", "missing.xlsx"}

InvokeHealthCheck(c) ==
    Invoke(c, [name |-> "healthCheck"], healthCheck(self))

InvokeAsk(c) ==
    \E apiKeyArg \in {Undefined, "", "sk-call"}, modelArg \in {Undefined, "gpt-4"} :
        Invoke(c, [name |-> "ask", question |-> "q", apiKey |-> apiKeyArg,
                   model |-> modelArg],
               ask(self, "q", apiKeyArg, modelArg))

InvokeUploadExcel(c) ==
    \E filePath \in FilePaths, createTableArg \in OptBools :
        Invoke(c, [name |-> "uploadExcel", filePath |-> filePath,
                   tableName |-> "t", createTable |-> createTableArg],
               uploadExcel(self, filePath, "t", createTableArg))

InvokePreviewExcel(c) ==
    \E filePath \in FilePaths, rowsArg \in OptRows :
        Invoke(c, [name |-> "previewExcel", filePath |-> filePath, rows |-> rowsArg],
               previewExcel(self, filePath, rowsArg))

InvokeQuery(c) ==
    Invoke(c, [name |-> "query", sql |-> "SHOW DATABASES"],
           query(self, "SHOW DATABASES"))

InvokeGetTables(c) ==
    Invoke(c, [name |-> "getTables"], getTables(self))

InvokeGetTableSchema(c) ==
    \E tableName \in {"t", "ghost"} :
        Invoke(c, [name |-> "getTableSchema", tableName |-> tableName],
               getTableSchema(self, tableName))

InvokeCreateLLMConfig(c) ==
    LET config == <<<<"resource_name", "my_deepseek">>, <<"api_key", "sk-llm">>>>
    IN  Invoke(c, [name |-> "createLLMConfig", config |-> config],
               createLLMConfig(self, config))

(***************************************************************************)
(* The awaited promise settles and the method returns or throws.           *)
(***************************************************************************)
Pending(c) == slots[c].st = "pending" /\ Len(slots[c].calls) > 0

Settle(c, wire, outcome) ==
    LET result == Await(slots[c].op.name, outcome)
    IN  /\ slots' = [slots EXCEPT ![c].st = "done",
                                  ![c].wire = wire,
                                  ![c].outcome = outcome,
                                  ![c].result = result]
        /\ httpRequests' = httpRequests + Len(result.calls)
        /\ UNCHANGED <<self, ctorArgs, invoked>>

RespondOk(c) ==
    /\ Pending(c)
    /\ ~StreamsMissingFile(slots[c].calls[1])
    /\ \E body \in OkBodies(slots[c].op.name) :
          Settle(c, Received(200, body), SettleResponse(200, body))

RespondError(c) ==
    /\ Pending(c)
    /\ ~StreamsMissingFile(slots[c].calls[1])
    /\ \E e \in ServerErrors :
          Settle(c, Received(e.status, ErrorBody(e.error)),
                 SettleResponse(e.status, ErrorBody(e.error)))

NetworkError(c) ==
    /\ Pending(c)
    /\ \E f \in NetworkFailures : Settle(c, NoWire, SettleFailure(f.code, f.message))

TimeoutFires(c) ==
    /\ Pending(c)
    /\ slots[c].calls[1].timeout > 0
    /\ Settle(c, NoWire, SettleFailure("ECONNABORTED", TimeoutMessage(slots[c].calls[1])))

StreamError(c) ==
    /\ Pending(c)
    /\ StreamsMissingFile(slots[c].calls[1])
    /\ Settle(c, NoWire,
              SettleFailure("ENOENT",
                            "ENOENT: no such file or directory, open '"
                                \o Get(slots[c].calls[1].body, "file") \o "'"))

\* the caller's await resumes with the result; the call site is free again
Return(c) ==
    /\ slots[c].st = "done"
    /\ slots' = [slots EXCEPT ![c] = IdleSlot]
    /\ UNCHANGED <<self, ctorArgs, invoked, httpRequests>>

Next ==
    \E c \in Callers :
        \/ InvokeHealthCheck(c)
        \/ InvokeAsk(c)
        \/ InvokeUploadExcel(c)
        \/ InvokePreviewExcel(c)
        \/ InvokeQuery(c)
        \/ InvokeGetTables(c)
        \/ InvokeGetTableSchema(c)
        \/ InvokeCreateLLMConfig(c)
        \/ RespondOk(c)
        \/ RespondError(c)
        \/ NetworkError(c)
        \/ TimeoutFires(c)
        \/ StreamError(c)
        \/ Return(c)

Spec == Init /\ [][Next]_vars

\* The client of the example (default base URL), with the one guarantee the
\* runtime gives a pending request: its timer fires unless it settles first.
LiveInit ==
    \E apiKeyArg \in ApiKeyArgs :
        LET made == constructor(UndefinedUrl, apiKeyArg)
        IN  /\ ctorArgs = [baseUrl |-> UndefinedUrl, apiKey |-> apiKeyArg]
            /\ self = made.this
            /\ slots = [c \in Callers |-> IdleSlot]
            /\ invoked = 0
            /\ httpRequests = Len(made.calls)

LiveSpec ==
    /\ LiveInit
    /\ [][Next]_vars
    /\ \A c \in Callers : WF_vars(TimeoutFires(c))

(***************************************************************************)
(* Properties.                                                             *)
(***************************************************************************)
Done(c) == slots[c].st = "done"
Running(c) == slots[c].st # "idle"
Is2xx(status) == status >= 200 /\ status < 300
KeyFields == {"api_key", "model"}

\* C1 (as amended): the payload of ask holds both api_key and model when an
\* API key is available, from the call or else from the constructor, and
\* holds neither of them otherwise, whatever model the call names.
C1_AskFieldsFollowKey ==
    \A c \in Callers :
        slots[c].op.name = "ask" =>
            LET body == slots[c].calls[1].body
                haveKey == \/ slots[c].op.apiKey \notin {Undefined, Null, ""}
                           \/ ctorArgs.apiKey \notin {Undefined, Null, ""}
            IN  /\ Len(slots[c].calls) = 1
                /\ Get(body, "query") = slots[c].op.question
                /\ IF haveKey THEN KeyFields \subseteq Keys(body)
                              ELSE KeyFields \cap Keys(body) = {}

\* C1, witness: ask called with a model and no key on a client without a
\* default key: the model is not sent.
C1_Witness ==
    \E c \in Callers :
        /\ slots[c].op.name = "ask"
        /\ slots[c].op.model = "gpt-4"
        /\ slots[c].op.apiKey = Undefined
        /\ ctorArgs.apiKey = Undefined
        /\ Keys(slots[c].calls[1].body) = {"query"}

\* C1 (as claimed): neither field when the call supplies neither an API key
\* nor a model, both fields when the call supplies either one.
C1_AsClaimed ==
    \A c \in Callers :
        slots[c].op.name = "ask" =>
            LET body == slots[c].calls[1].body
            IN  IF slots[c].op.apiKey = Undefined /\ slots[c].op.model = Undefined
                THEN KeyFields \cap Keys(body) = {}
                ELSE KeyFields \subseteq Keys(body)

\* C2 (as amended): when the gateway answers with a non-2xx status and the
\* body {detail: {error: m}}, the method throws an error that carries that
\* response, so that error.response.data.detail.error is m; error.message
\* is "Request failed with status code <status>".
C2_RemoteErrorCarriesDetail ==
    \A c \in Callers : \A e \in ServerErrors :
        ( /\ Done(c)
          /\ slots[c].wire = Received(e.status, ErrorBody(e.error)) ) =>
            /\ slots[c].result.threw
            /\ ErrorKind(slots[c].result.error) = "RemoteError"
            /\ slots[c].result.error.response.status = e.status
            /\ Get(slots[c].result.error.response.data.obj, "detail.error") = e.error
            /\ slots[c].result.error.message
                   = "Request failed with status code " \o ToString(e.status)

\* C2, witness: getTableSchema("ghost") answered 404 "table not found".
C2_Witness ==
    \E c \in Callers :
        /\ Done(c)
        /\ slots[c].op = [name |-> "getTableSchema", tableName |-> "ghost"]
        /\ slots[c].wire = Received(404, ErrorBody("table not found"))
        /\ slots[c].result.threw

\* C2 (as claimed): the error thrown for {detail: {error: m}} has m as its
\* message.
C2_AsClaimed ==
    \A c \in Callers : \A e \in ServerErrors :
        ( /\ Done(c)
          /\ slots[c].wire = Received(e.status, ErrorBody(e.error)) ) =>
            /\ slots[c].result.threw
            /\ ErrorKind(slots[c].result.error) = "RemoteError"
            /\ slots[c].result.error.message = e.error

\* C3: a request that got no response makes its method throw an error of
\* kind TransportError, a non-2xx response one of kind RemoteError.
C3_KindsNotConfused ==
    \A c \in Callers :
        Done(c) =>
            /\ ~slots[c].wire.received =>
                  /\ slots[c].result.threw
                  /\ ErrorKind(slots[c].result.error) = "TransportError"
            /\ (slots[c].wire.received /\ ~Is2xx(slots[c].wire.status)) =>
                  /\ slots[c].result.threw
                  /\ ErrorKind(slots[c].result.error) = "RemoteError"

\* C3, witness: healthCheck failed by a refused connection.
C3_Witness ==
    \E c \in Callers :
        /\ Done(c)
        /\ slots[c].op.name = "healthCheck"
        /\ ~slots[c].wire.received
        /\ slots[c].result.error.code = "ECONNREFUSED"
        /\ ErrorKind(slots[c].result.error) = "TransportError"

\* C4: the number of HTTP requests issued equals the number of method
\* invocations: none by the constructor, one per invocation, none again
\* after a failure.
C4_OneRequestPerInvocation == httpRequests = invoked

\* C4, witness: two methods were invoked, one has failed, two requests.
C4_Witness ==
    /\ invoked = 2
    /\ httpRequests = 2
    /\ \E c \in Callers : Done(c) /\ slots[c].result.threw

\* C5: when the HTTP call of a method fails, the method throws that same
\* error and returns no result.
C5_ErrorsPropagateUnchanged ==
    \A c \in Callers :
        (Done(c) /\ slots[c].outcome.rejected) =>
            /\ slots[c].result.threw
            /\ slots[c].result.error = slots[c].outcome.error
            /\ slots[c].result.value = JSUndefined

\* C5, witness: createLLMConfig rejected by the gateway, and query timed
\* out, each throwing.
C5_Witness ==
    \E c, d \in Callers :
        /\ Done(c) /\ slots[c].op.name = "createLLMConfig"
        /\ slots[c].wire.received /\ slots[c].result.threw
        /\ Done(d) /\ slots[d].op.name = "query"
        /\ slots[d].result.error.code = "ECONNABORTED"

\* C6 (as claimed): a 2xx response that is not JSON, or lacks the field the
\* method reads (tables for getTables, schema for getTableSchema), makes
\* the method throw; it never returns a result for such a response.
C6_AsClaimed ==
    \A c \in Callers :
        ( /\ Done(c)
          /\ slots[c].wire.received
          /\ Is2xx(slots[c].wire.status)
          /\ \/ ~slots[c].wire.body.json
             \/ /\ slots[c].op.name = "getTables"
                /\ "tables" \notin Keys(slots[c].wire.body.obj)
             \/ /\ slots[c].op.name = "getTableSchema"
                /\ "schema" \notin Keys(slots[c].wire.body.obj) ) =>
            slots[c].result.threw

\* C7 (as claimed): uploadExcel or previewExcel of a file that cannot be
\* read throws, and no HTTP request is started by that invocation.
C7_AsClaimed ==
    \A c \in Callers :
        ( /\ Running(c)
          /\ slots[c].op.name \in {"uploadExcel", "previewExcel"}
          /\ slots[c].op.filePath \notin ExistingFiles ) =>
            /\ Len(slots[c].calls) = 0
            /\ Done(c) => slots[c].result.threw

\* the method body an invocation record names
MethodBody(this, op) ==
    CASE op.name = "healthCheck" -> healthCheck(this)
      [] op.name = "ask" -> ask(this, op.question, op.apiKey, op.model)
      [] op.name = "uploadExcel" ->
            uploadExcel(this, op.filePath, op.tableName, op.createTable)
      [] op.name = "previewExcel" -> previewExcel(this, op.filePath, op.rows)
      [] op.name = "query" -> query(this, op.sql)
      [] op.name = "getTables" -> getTables(this)
      [] op.name = "getTableSchema" -> getTableSchema(this, op.tableName)
      [] op.name = "createLLMConfig" -> createLLMConfig(this, op.config)

\* C8: whatever methods run, one after or alongside another, the
\* configuration is the one the constructor made, and the request of each
\* running method is the one its own arguments give on that configuration.
C8_Stateless ==
    LET built == constructor(ctorArgs.baseUrl, ctorArgs.apiKey).this
    IN  /\ self = built
        /\ \A c \in Callers :
              Running(c) => slots[c].calls = MethodBody(built, slots[c].op).calls

\* C8, witness: two ask calls wait at once, one with its own key, the other
\* without; the second is sent with the default key of the constructor.
C8_Witness ==
    \E c, d \in Callers :
        /\ slots[c].st = "pending" /\ slots[c].op.name = "ask"
        /\ slots[c].op.apiKey = "sk-call"
        /\ slots[d].st = "pending" /\ slots[d].op.name = "ask"
        /\ slots[d].op.apiKey = Undefined
        /\ Get(slots[d].calls[1].body, "api_key") = "sk-default"
        /\ invoked = 2

\* C9: every invoked method completes, whatever the other call site does;
\* each request carries the one 60 second timeout, and a request that
\* times out makes its method throw the timeout error.
C9_EveryCallCompletes ==
    /\ \A c \in Callers : (slots[c].st = "pending") ~> (slots[c].st = "done")
    /\ [](\A c \in Callers :
            /\ Running(c) =>
                  \A i \in DOMAIN slots[c].calls : slots[c].calls[i].timeout = 60000
            /\ (Done(c) /\ slots[c].outcome.error.code = "ECONNABORTED") =>
                  /\ slots[c].result.threw
                  /\ slots[c].result.error.message = "timeout of 60000ms exceeded")

\* C9, witness: one call has failed by timeout while the other still waits.
C9_Witness ==
    \E c, d \in Callers :
        /\ slots[c].st = "pending"
        /\ Done(d)
        /\ slots[d].result.threw
        /\ slots[d].result.error.code = "ECONNABORTED"

\* C10 (as claimed): the stored base URL never ends in '/', a base URL given
\* without a trailing slash is stored as given, and every request is sent
\* on the stored base URL.
C10_AsClaimed ==
    LET supplied == IF ctorArgs.baseUrl = UndefinedUrl THEN DefaultBaseUrl
                    ELSE ctorArgs.baseUrl
        EndsInSlash(u) == Len(u) > 0 /\ u[Len(u)] = "/"
    IN  /\ ~EndsInSlash(self.baseUrl)
        /\ ~EndsInSlash(supplied) => self.baseUrl = supplied
        /\ \A c \in Callers :
              Running(c) =>
                  \A i \in DOMAIN slots[c].calls :
                      slots[c].calls[i].baseURL = self.baseUrl

\* C11: the api_key that ask sends is the key of the call when that is
\* non-empty, else the default key of the constructor when that is
\* non-empty, else the field is absent; and the default key stays the one
\* the constructor was given, whatever keys the calls carried.
C11_KeyPrecedence ==
    LET Given(k) == k \notin {Undefined, Null, ""}
    IN  /\ self.apiKey = (IF ctorArgs.apiKey = Undefined THEN Null ELSE ctorArgs.apiKey)
        /\ \A c \in Callers :
              slots[c].op.name = "ask" =>
                  LET body == slots[c].calls[1].body
                  IN  IF Given(slots[c].op.apiKey)
                      THEN Get(body, "api_key") = slots[c].op.apiKey
                      ELSE IF Given(ctorArgs.apiKey)
                      THEN Get(body, "api_key") = ctorArgs.apiKey
                      ELSE "api_key" \notin Keys(body)

\* C11, witness: on a client with a default key, an ask with its own key
\* has completed and sent that key, and another ask without a key (and one
\* with an empty key) is sent with the default key.
C11_Witness ==
    \E c, d \in Callers :
        /\ ctorArgs.apiKey = "sk-default"
        /\ Done(c) /\ slots[c].op.name = "ask"
        /\ slots[c].op.apiKey = "sk-call"
        /\ Get(slots[c].calls[1].body, "api_key") = "sk-call"
        /\ slots[d].st = "pending" /\ slots[d].op.name = "ask"
        /\ slots[d].op.apiKey = ""
        /\ Get(slots[d].calls[1].body, "api_key") = "sk-default"
        /\ self.apiKey = "sk-default"

====
